---- MODULE Spec2Model ----
(***************************************************************************)
(* A model of the registration wrappers of SimpleReg:                      *)
(*   - registrationtools/WrapItkRegistration.py: the in-process ITK        *)
(*     registration wrapper (specification Spec);                          *)
(*   - simplereg/niftyreg.py: the wrappers of the NiftyReg command-line    *)
(*     tools, which exchange images with the tool through files of a       *)
(*     temporary directory (specification SpecNifty for one instance,      *)
(*     SpecPair for a RegAladin and a RegF3D in use at the same time).     *)
(***************************************************************************)
EXTENDS Integers, Sequences, FiniteSets, TLC

(***************************************************************************)
(* Bounds of the model.                                                    *)
(***************************************************************************)
\* Number of constructor arguments of WrapItkRegistration that differ from
\* their default (for the two images: from a well-typed image).
MaxDeviation == 3
\* Number of calls of WrapItkRegistration.run on one object.
MaxRuns == 2

(***************************************************************************)
(* Python values.                                                          *)
(***************************************************************************)
\* Python's None.
None == [py |-> "None"]
\* An attribute that no assignment has created yet: reading it raises
\* AttributeError.
Absent == [py |-> "<absent>"]
\* A local variable that no assignment has bound yet: reading it raises
\* UnboundLocalError.
Unbound == "<unbound>"
\* No exception: the call returned.
NoExc == "<returned>"

(***************************************************************************)
(* The state: a WrapItkRegistration object, and the NiftyReg instances     *)
(* with the file system they share.                                        *)
(***************************************************************************)
VARIABLES
    cfg,                          \* the constructor's arguments, as stored by __init__
    registration_transform_itk,   \* self._registration_transform_itk
    registration_transform_sitk,  \* self._registration_transform_sitk
    computational_time,           \* self._computational_time
    calls,                        \* the outcome (exception) of each call of run, in order
    last,                         \* the frame of the last call of run as it ended
    ret                           \* the outcome of the last getter call

itkvars == <<cfg, registration_transform_itk, registration_transform_sitk,
             computational_time, calls, last, ret>>

VARIABLES
    constructed,   \* the instances that exist
    self,          \* the attributes of each instance
    proc,          \* each instance's call in progress (or the last one)
    fs             \* the file system: path -> file, or NoFile

niftyvars == <<constructed, self, proc, fs>>

(***************************************************************************)
(*                 WrapItkRegistration (specification Spec)                *)
(***************************************************************************)

\* A Python string, where the value may also be None.
Str(s) == [str |-> s]

\* An instance of itk.Image[pixel_type, dimension], and an image that is not.
ItkImage == [class |-> "itk.Image"]
SitkImage == [class |-> "sitk.Image"]

\* The constructor's parameters.
Fields == {"fixed_itk", "moving_itk", "fixed_itk_mask", "moving_itk_mask",
           "registration_type", "metric", "interpolator", "initializer_type",
           "optimizer", "use_multiresolution_framework", "shrink_factors",
           "smoothing_sigmas", "verbose",
           "itk_oriented_gaussian_interpolate_image_filter",
           "optimizer_scales"}

\* The defaults of __init__; fixed_itk and moving_itk have none, a well-typed
\* image (an instance of itk.Image[pixel_type, dimension]) stands for it.
Default == [fixed_itk |-> ItkImage, moving_itk |-> ItkImage,
            fixed_itk_mask |-> None, moving_itk_mask |-> None,
            registration_type |-> "Rigid", metric |-> "Correlation",
            interpolator |-> "Linear", initializer_type |-> None,
            optimizer |-> "RegularStepGradientDescent",
            use_multiresolution_framework |-> FALSE,
            shrink_factors |-> <<2, 1>>, smoothing_sigmas |-> <<1, 0>>,
            verbose |-> 1,
            itk_oriented_gaussian_interpolate_image_filter |-> None,
            optimizer_scales |-> None]

\* Other values a caller may pass. "Translation", "Demons",
\* "Cubic" and "ConjugateGradientLineSearch" are names the code does not know
\* (itk has no CubicInterpolateImageFunction).
Other == [fixed_itk |-> {SitkImage}, moving_itk |-> {SitkImage},
          fixed_itk_mask |-> {ItkImage, SitkImage},
          moving_itk_mask |-> {ItkImage, SitkImage},
          registration_type |-> {"Similarity", "Affine", "Translation"},
          metric |-> {"MattesMutualInformation", "MeanSquares", "Demons"},
          interpolator |-> {"NearestNeighbor", "Cubic"},
          initializer_type |-> {Str("MOMENTS"), Str("GEOMETRY")},
          optimizer |-> {"ConjugateGradientLineSearch"},
          use_multiresolution_framework |-> {TRUE},
          shrink_factors |-> {<<4, 2, 1>>}, smoothing_sigmas |-> {<<2, 1, 0>>},
          verbose |-> {0},
          itk_oriented_gaussian_interpolate_image_filter |->
              {[class |-> "itk.OrientedGaussianInterpolateImageFunction"]},
          optimizer_scales |-> {Str("PhysicalShift")}]

\* The image dimensions itk is wrapped for.
Dimensions == {2, 3}

Pick(D, f) == IF f \in D THEN Other[f] ELSE {Default[f]}

\* The argument lists in which the parameters of D, and only they, differ
\* from the default.
ConfigsFor(D) ==
    [fixed_itk : Pick(D, "fixed_itk"), moving_itk : Pick(D, "moving_itk"),
     fixed_itk_mask : Pick(D, "fixed_itk_mask"),
     moving_itk_mask : Pick(D, "moving_itk_mask"),
     dimension : Dimensions,
     registration_type : Pick(D, "registration_type"),
     metric : Pick(D, "metric"), interpolator : Pick(D, "interpolator"),
     initializer_type : Pick(D, "initializer_type"),
     optimizer : Pick(D, "optimizer"),
     use_multiresolution_framework : Pick(D, "use_multiresolution_framework"),
     shrink_factors : Pick(D, "shrink_factors"),
     smoothing_sigmas : Pick(D, "smoothing_sigmas"),
     verbose : Pick(D, "verbose"),
     itk_oriented_gaussian_interpolate_image_filter :
         Pick(D, "itk_oriented_gaussian_interpolate_image_filter"),
     optimizer_scales : Pick(D, "optimizer_scales")]

Configs ==
    UNION {ConfigsFor(D) : D \in {S \in SUBSET Fields : Cardinality(S) <= MaxDeviation}}

\* isinstance(x, self._image_type)
IsImage(x) == x = ItkImage

\* The interpolators itk.<name>InterpolateImageFunction exists for.
KnownInterpolators == {"Linear", "NearestNeighbor"}

\* What the environment decides in one call of run: whether
\* registration.Update() and sitkh.get_sitk_from_itk_transform() return or raise.
Externals == [update : {"ok", "raise"}, convert : {"ok", "raise"}]

\* The state of one call of run: the exception that ended it (NoExc while it
\* runs), the locals of _run_v3, the objects created so far, and the two
\* attributes the call assigns.
NoType == [family |-> Unbound, dim |-> 0]

Frame(itk, sitk) ==
    [exc |-> NoExc, msg |-> "", entered_v3 |-> FALSE, created |-> {},
     transform_type |-> NoType, metric_type |-> Unbound,
     wired |-> NoType, executed |-> FALSE, multires_executed |-> FALSE,
     printed_schedule |-> FALSE, timed |-> FALSE,
     self_itk |-> itk, self_sitk |-> sitk]

Raise(f, exc, msg) == [f EXCEPT !.exc = exc, !.msg = msg]


\* CheckImages with the moving image checked before the fixed image.
CheckImagesMovingFirst(c, f) ==
    IF ~IsImage(c.moving_itk)
    THEN Raise(f, "ValueError", "Moving image must be of type itk.Image")
    ELSE IF ~IsImage(c.fixed_itk)
    THEN Raise(f, "ValueError", "Fixed image must be of type itk.Image")
    ELSE IF c.fixed_itk_mask # None /\ ~IsImage(c.fixed_itk_mask)
    THEN Raise(f, "ValueError", "Fixed image mask must be of type itk.Image")
    ELSE IF c.moving_itk_mask # None /\ ~IsImage(c.moving_itk_mask)
    THEN Raise(f, "ValueError", "Moving image mask must be of type itk.Image")
    ELSE f

\* run, lines 127-141: the four type checks, in the order of the code.
CheckImages(c, f) ==
    IF ~IsImage(c.fixed_itk)
    THEN Raise(f, "ValueError", "Fixed image must be of type itk.Image")
    ELSE IF ~IsImage(c.moving_itk)
    THEN Raise(f, "ValueError", "Moving image must be of type itk.Image")
    ELSE IF c.fixed_itk_mask # None /\ ~IsImage(c.fixed_itk_mask)
    THEN Raise(f, "ValueError", "Fixed image mask must be of type itk.Image")
    ELSE IF c.moving_itk_mask # None /\ ~IsImage(c.moving_itk_mask)
    THEN Raise(f, "ValueError", "Moving image mask must be of type itk.Image")
    ELSE f

\* TransformType with the affine transform for every other name.
TransformTypeElseAffine(c, f) ==
    IF f.exc # NoExc THEN f
    ELSE LET g == [f EXCEPT !.entered_v3 = TRUE] IN
         IF c.registration_type = "Rigid"
         THEN [g EXCEPT !.transform_type = [family |-> "Euler", dim |-> c.dimension]]
         ELSE IF c.registration_type = "Similarity"
         THEN [g EXCEPT !.transform_type = [family |-> "Similarity", dim |-> c.dimension]]
         ELSE [g EXCEPT !.transform_type = [family |-> "Affine", dim |-> c.dimension]]

\* _run_v3, lines 154-170: the transform type. A type is the pair of its
\* family and its dimension (itk.Euler3DTransform is family Euler, dim 3).
TransformType(c, f) ==
    IF f.exc # NoExc THEN f
    ELSE LET g == [f EXCEPT !.entered_v3 = TRUE] IN
         IF c.registration_type = "Rigid"
         THEN [g EXCEPT !.transform_type = [family |-> "Euler", dim |-> c.dimension]]
         ELSE IF c.registration_type = "Similarity"
         THEN [g EXCEPT !.transform_type = [family |-> "Similarity", dim |-> c.dimension]]
         ELSE IF c.registration_type = "Affine"
         THEN [g EXCEPT !.transform_type = [family |-> "Affine", dim |-> c.dimension]]
         ELSE Raise(g, "ValueError", "Registration type not known.")

\* _run_v3, lines 173-179: the interpolator is the one given to the
\* constructor, or is created from the type eval() finds under the name; for a
\* name itk has no interpolator for, eval raises AttributeError.
InterpolatorType(c, f) ==
    IF f.exc # NoExc THEN f
    ELSE IF c.itk_oriented_gaussian_interpolate_image_filter # None THEN f
    ELSE IF c.interpolator \in KnownInterpolators
    THEN [f EXCEPT !.created = @ \cup {"interpolator"}]
    ELSE Raise(f, "AttributeError", "module 'itk' has no such attribute")

\* _run_v3, lines 182-191: the metric type; the chain has no else, so another
\* name leaves metric_type unbound.
MetricType(c, f) ==
    IF f.exc # NoExc THEN f
    ELSE IF c.metric = "Correlation"
    THEN [f EXCEPT !.metric_type = "NormalizedCorrelationImageToImageMetric"]
    ELSE IF c.metric = "MattesMutualInformation"
    THEN [f EXCEPT !.metric_type = "MattesMutualInformationImageToImageMetric"]
    ELSE IF c.metric = "MeanSquares"
    THEN [f EXCEPT !.metric_type = "MeanSquaresImageToImageMetric"]
    ELSE f

\* OptimizerType without the else branch: every name is accepted.
OptimizerTypeAny(c, f) == f

\* _run_v3, lines 194-199: the optimizer type.
OptimizerType(c, f) ==
    IF f.exc # NoExc THEN f
    ELSE IF c.optimizer = "RegularStepGradientDescent" THEN f
    ELSE Raise(f, "ValueError",
               "For 'ImageRegistrationMethod' only RegularStepGradientDescent")

\* _run_v3, lines 202-219: the registration object and the optimizer are
\* created, then optimizer scales are refused.
SetOptimizer(c, f) ==
    IF f.exc # NoExc THEN f
    ELSE LET g == [f EXCEPT !.created = @ \cup {"registration", "optimizer"}] IN
         IF c.optimizer_scales # None
         THEN Raise(g, "ValueError", "No scales allowed for 'ImageRegistrationMethod'")
         ELSE g

\* _run_v3, lines 221-244: metric_type.New() and the mask objects.
SetMetric(c, f) ==
    IF f.exc # NoExc THEN f
    ELSE IF f.metric_type = Unbound
    THEN Raise(f, "UnboundLocalError",
               "local variable 'metric_type' referenced before assignment")
    ELSE [f EXCEPT !.created = @ \cup {"metric"}
              \cup (IF c.moving_itk_mask # None THEN {"moving_mask_object"} ELSE {})
              \cup (IF c.fixed_itk_mask # None THEN {"fixed_mask_object"} ELSE {})]

\* _run_v3, lines 246-276: the transform wired into the registration, and its
\* optional initializer.
SetTransform(c, f) ==
    IF f.exc # NoExc THEN f
    ELSE [f EXCEPT !.wired = f.transform_type,
                   !.created = @ \cup {"transform"}
                       \cup (IF c.initializer_type # None
                             THEN {IF c.initializer_type = Str("MOMENTS")
                                   THEN "initializer(moments)"
                                   ELSE "initializer(geometry)"}
                             ELSE {})]

\* Multiresolution without the raise.
MultiresolutionAllowed(c, f) == f

\* _run_v3, lines 278-282: the multi-resolution framework is refused.
Multiresolution(c, f) ==
    IF f.exc # NoExc THEN f
    ELSE IF c.use_multiresolution_framework
    THEN Raise(f, "ValueError",
               "Multiresolution-Framework cannot be used with ImageRegistrationMethod")
    ELSE f

\* _run_v3, line 285: registration.Update(), which returns or raises.
Execute(c, e, f) ==
    IF f.exc # NoExc THEN f
    ELSE IF e.update = "raise"
    THEN Raise(f, "RuntimeError", "itk: exception in Update")
    ELSE [f EXCEPT !.executed = TRUE,
                   !.multires_executed = c.use_multiresolution_framework]

\* _run_v3, line 287: the transform of the executed registration, of run n.
StoreItk(c, n, f) ==
    IF f.exc # NoExc THEN f
    ELSE [f EXCEPT !.self_itk = [type |-> f.wired, run |-> n]]

\* _run_v3, lines 289-314: the verbose report, with its multi-resolution branch.
Report(c, f) ==
    IF f.exc # NoExc THEN f
    ELSE IF c.verbose # 0 /\ c.use_multiresolution_framework
    THEN [f EXCEPT !.printed_schedule = TRUE]
    ELSE f

\* _run_v3, lines 316-317: the conversion to a sitk transform, which returns
\* or raises.
StoreSitk(c, e, f) ==
    IF f.exc # NoExc THEN f
    ELSE IF e.convert = "raise"
    THEN Raise(f, "Exception", "sitkh.get_sitk_from_itk_transform raised")
    ELSE [f EXCEPT !.self_sitk = [sitk_of |-> f.self_itk]]

\* run, line 150: the computational time is stored when _run_v3 has returned.
StopTiming(f) == IF f.exc # NoExc THEN f ELSE [f EXCEPT !.timed = TRUE]

\* _run_v3, lines 152-326.
RunV3(c, e, n, f) ==
    StoreSitk(c, e, Report(c, StoreItk(c, n, Execute(c, e,
        Multiresolution(c, SetTransform(c, SetMetric(c, SetOptimizer(c,
            OptimizerType(c, MetricType(c, InterpolatorType(c,
                TransformType(c, f))))))))))))

\* run, lines 125-150, as call number n on an object whose two transform
\* attributes are itk and sitk.
RunFrame(c, e, n, itk, sitk) ==
    StopTiming(RunV3(c, e, n, CheckImages(c, Frame(itk, sitk))))

\* get_registration_transform_itk without the check for None.
GetItkUnchecked(itk) ==
    [call |-> "get_registration_transform_itk", exc |-> NoExc, msg |-> "", value |-> itk]

\* get_registration_transform_itk, lines 113-117.
get_registration_transform_itk(itk) ==
    IF itk = None
    THEN [call |-> "get_registration_transform_itk", exc |-> "UnboundLocalError",
          msg |-> "Execute 'run' first.", value |-> None]
    ELSE [call |-> "get_registration_transform_itk", exc |-> NoExc, msg |-> "",
          value |-> itk]

\* get_registration_transform_sitk, lines 99-103: reading an attribute that no
\* assignment has created raises AttributeError.
get_registration_transform_sitk(sitk) ==
    IF sitk = Absent
    THEN [call |-> "get_registration_transform_sitk", exc |-> "AttributeError",
          msg |-> "object has no attribute '_registration_transform_sitk'",
          value |-> None]
    ELSE IF sitk = None
    THEN [call |-> "get_registration_transform_sitk", exc |-> "UnboundLocalError",
          msg |-> "Execute 'run' first.", value |-> None]
    ELSE [call |-> "get_registration_transform_sitk", exc |-> NoExc, msg |-> "",
          value |-> sitk]

NoCall == [call |-> "none", exc |-> NoExc, msg |-> "", value |-> None]

\* __init__, lines 54-78: _registration_transform_itk is None and the
\* computational time zero; _registration_transform_sitk is not assigned.
InitItk ==
    /\ cfg \in Configs
    /\ registration_transform_itk = None
    /\ registration_transform_sitk = Absent
    /\ computational_time = 0
    /\ calls = << >>
    /\ last = Frame(None, Absent)
    /\ ret = NoCall

\* One call of run.
Run ==
    /\ Len(calls) < MaxRuns
    /\ \E e \in Externals :
         LET n == Len(calls) + 1
             f == RunFrame(cfg, e, n, registration_transform_itk,
                           registration_transform_sitk)
         IN /\ last' = f
            /\ registration_transform_itk' = f.self_itk
            /\ registration_transform_sitk' = f.self_sitk
            /\ computational_time' = IF f.timed THEN n ELSE computational_time
            /\ calls' = Append(calls, [exc |-> f.exc, executed |-> f.executed])
    /\ ret' = NoCall
    /\ UNCHANGED <<cfg, niftyvars>>

GetTransformItk ==
    /\ ret' = get_registration_transform_itk(registration_transform_itk)
    /\ UNCHANGED <<cfg, registration_transform_itk, registration_transform_sitk,
                   computational_time, calls, last, niftyvars>>

GetTransformSitk ==
    /\ ret' = get_registration_transform_sitk(registration_transform_sitk)
    /\ UNCHANGED <<cfg, registration_transform_itk, registration_transform_sitk,
                   computational_time, calls, last, niftyvars>>

NextItk == Run \/ GetTransformItk \/ GetTransformSitk


(***************************************************************************)
(*          NiftyReg, RegAladin, RegF3D (specification SpecNifty)          *)
(***************************************************************************)

\* Number of calls (_run, get_deformed_image_sitk) made on one instance.
MaxCalls == 2
\* The tool's affine matrices are Matrix(0) .. Matrix(MaxSeed).
MaxSeed == 2
\* Number of calls made on two instances in use at the same time, together.
MaxPairCalls == 2

\* One RegAladin and one RegF3D.
Insts == {"aladin", "f3d"}

\* A string that names a path is the sequence of its components and
\* separators: "RegAladin/" is <<"RegAladin", "/">>.
Sep == "/"

\* simplereg.definitions.DIR_TMP (line 17), a directory.
DIR_TMP == <<"DIR_TMP">>

\* The default subfolder of each class (lines 81 and 191).
DefaultSubfolder == [aladin |-> <<"RegAladin">>, f3d |-> <<"RegF3D">>]

\* The subfolder arguments a caller passes: the two defaults, and the first
\* with a trailing separator.
Subfolders == {<<"RegAladin">>, <<"RegF3D">>, <<"RegAladin", Sep>>}

FileNames == {"fixed.nii.gz", "moving.nii.gz", "warped_moving.nii.gz",
              "fixed_mask.nii.gz", "moving_mask.nii.gz", "warped_mask.nii.gz",
              "registration_transform.txt", "registration_cpp.nii.gz"}

\* os.path.join(a, b): b alone when b is absolute, else a and b with one
\* separator between them unless a is empty or ends with one.
Join(a, b) ==
    IF b # << >> /\ Head(b) = Sep THEN b
    ELSE IF a = << >> \/ a[Len(a)] = Sep THEN a \o b
    ELSE a \o <<Sep>> \o b

\* The value of a path attribute (lines 42-54, 95-96, 205-206).
Path(str) == [path |-> str]

\* The file paths that instances build.
Paths == {Path(Join(Join(DIR_TMP, s), <<n>>)) : s \in Subfolders, n \in FileNames}

\* The file system: the directory a file path lies in, and the directory a
\* directory path names, with or without a trailing separator.
DirOf(p) == SubSeq(p.path, 1, Len(p.path) - 2)

Directory(d) ==
    IF d.path[Len(d.path)] = Sep THEN SubSeq(d.path, 1, Len(d.path) - 1) ELSE d.path

InDirectory(p, d) == DirOf(p) = Directory(d)

NoFile == [py |-> "<no file>"]

\* The images a caller passes: sitk images of dimension 2 or 3, and mask images.
Images == [dim : {2, 3}]
Masks == {[mask |-> "mask image"]}

\* nipype's value of an input that was not set.
Undefined == [py |-> "<undefined>"]

\* An attribute that no call has stored a result in yet.
Unset == [py |-> "<unset>"]

\* NiftyReg.__init__ (lines 41-56) with RegAladin.__init__ (95-96) and
\* RegF3D.__init__ (205-206): the paths of the instance.
NewInstance(class, subfolder, fixed, moving, fmask, mmask) ==
    LET dir == Join(DIR_TMP, subfolder) IN
    [class |-> class,
     fixed_sitk |-> fixed, moving_sitk |-> moving,
     fixed_sitk_mask |-> fmask, moving_sitk_mask |-> mmask,
     dir_tmp |-> Path(dir),
     fixed_str |-> Path(Join(dir, <<"fixed.nii.gz">>)),
     moving_str |-> Path(Join(dir, <<"moving.nii.gz">>)),
     warped_moving_str |-> Path(Join(dir, <<"warped_moving.nii.gz">>)),
     fixed_mask_str |-> Path(Join(dir, <<"fixed_mask.nii.gz">>)),
     moving_mask_str |-> Path(Join(dir, <<"moving_mask.nii.gz">>)),
     warped_moving_mask_str |-> Path(Join(dir, <<"warped_mask.nii.gz">>)),
     transform_str |-> Path(Join(dir,
         IF class = "aladin" THEN <<"registration_transform.txt">>
                             ELSE <<"registration_cpp.nii.gz">>)),
     warped_moving_sitk |-> Unset,
     registration_transform_sitk |-> Unset]

\* No call in progress; call counts the calls made so far.
Idle == [op |-> "none", pc |-> "idle", call |-> 0, log |-> << >>,
         inputs |-> Undefined, args |-> None, exc |-> NoExc, result |-> Unset]

\* sitk.WriteImage(image, path) by call number n of instance i.
WriteImage(files, image, path, i, n) ==
    [files EXCEPT ![path] = [data |-> image, by |-> <<i, n>>]]

\* ph.create_directory(dir) with delete_files=False.
CreateDirectoryKeepFiles(files, dir) == files

\* ph.create_directory(DIR_TMP, delete_files=True): every subfolder of DIR_TMP
\* loses its files.
CreateDirectoryOfDirTmp(files, dir) == [p \in Paths |-> NoFile]

\* ph.create_directory(dir, delete_files=True): the directory exists and
\* holds no file.
CreateDirectory(files, dir) ==
    [p \in Paths |-> IF InDirectory(p, dir) THEN NoFile ELSE files[p]]


\* The 4 x 4 matrices the affine tool may write to its transform file: three
\* rows of entries in -2 .. 2 and the row 0 0 0 1.
Matrix(seed) ==
    [r \in 1..4 |-> [c \in 1..4 |->
        IF r = 4 THEN (IF c = 4 THEN 1 ELSE 0)
        ELSE ((3 * r + 2 * c + seed) % 5) - 2]]

\* numpy: the sum of u[k] * v[k] for k in 1 .. n.
RECURSIVE DotSum(_, _, _)
DotSum(u, v, n) == IF n = 0 THEN 0 ELSE u[n] * v[n] + DotSum(u, v, n - 1)

\* numpy: A.dot(B) for d x d matrices, and A.dot(t) for a vector.
Dot(A, B, d) ==
    [r \in 1..d |-> [c \in 1..d |-> DotSum(A[r], [k \in 1..d |-> B[k][c]], d)]]

DotVec(A, t, d) == [r \in 1..d |-> DotSum(A[r], t, d)]

\* numpy: A.flatten(), row by row.
Flatten(A, d) ==
    [k \in 1..(d * d) |-> A[((k - 1) \div d) + 1][((k - 1) % d) + 1]]

\* SignFlip without R[1, 1] = -1.
SignFlipFirstOnly(d) ==
    [r \in 1..d |-> [c \in 1..d |->
        IF r # c THEN 0 ELSE IF r = 1 THEN -1 ELSE 1]]

\* Lines 148-150: R = np.eye(dimension); R[0, 0] = -1; R[1, 1] = -1.
SignFlip(d) ==
    [r \in 1..d |-> [c \in 1..d |->
        IF r # c THEN 0 ELSE IF r = 1 \/ r = 2 THEN -1 ELSE 1]]

\* RegAladin._convert_to_sitk_transform, lines 137-156, of the matrix read
\* from the transform file, for a fixed image of dimension d.
ConvertToSitkTransform(matrix, d) ==
    LET A  == [r \in 1..d |-> [c \in 1..d |-> matrix[r][c]]]
        t  == [r \in 1..d |-> matrix[r][Len(matrix[r])]]
        R  == SignFlip(d)
        A2 == Dot(Dot(R, A, d), R, d)
        t2 == DotVec(R, t, d)
    IN [kind |-> "sitk.AffineTransform", matrix |-> Flatten(A2, d),
        translation |-> t2]

\* ToolInputs with each mask passed under the other mask's condition.
ToolInputsMasksSwapped(o) ==
    [ref_file |-> o.fixed_str, flo_file |-> o.moving_str,
     res_file |-> o.warped_moving_str, out_file |-> o.transform_str,
     rmask_file |-> IF o.moving_sitk_mask # None THEN o.fixed_mask_str ELSE Undefined,
     fmask_file |-> IF o.fixed_sitk_mask # None THEN o.moving_mask_str ELSE Undefined]

\* Lines 102-114 (RegAladin) and 212-224 (RegF3D): the inputs of the tool;
\* out_file is aff_file for reg_aladin and cpp_file for reg_f3d.
ToolInputs(o) ==
    [ref_file |-> o.fixed_str, flo_file |-> o.moving_str,
     res_file |-> o.warped_moving_str, out_file |-> o.transform_str,
     rmask_file |-> IF o.fixed_sitk_mask # None THEN o.fixed_mask_str ELSE Undefined,
     fmask_file |-> IF o.moving_sitk_mask # None THEN o.moving_mask_str ELSE Undefined]

\* Lines 288-294: the inputs of the resampling tool.
ResampleInputs(o, order) ==
    [ref_file |-> o.fixed_str, flo_file |-> o.moving_str,
     trans_file |-> o.transform_str, res_file |-> o.warped_moving_str,
     inter |-> order]

\* The files the tool needs are there.
Readable(files, inputs) ==
    /\ files[inputs.ref_file] # NoFile
    /\ files[inputs.flo_file] # NoFile
    /\ inputs.rmask_file # Undefined => files[inputs.rmask_file] # NoFile
    /\ inputs.fmask_file # Undefined => files[inputs.fmask_file] # NoFile

DataOf(files, path) == IF path = Undefined THEN None ELSE files[path].data

\* nreg.run() of reg_aladin or reg_f3d, as call n of instance i: the tool
\* reads the files its inputs name and writes the warped image and the
\* transform (the affine matrix, or the control point grid).
RunTool(files, class, inputs, seed, i, n) ==
    LET warped == [tool |-> class, run |-> <<i, n>>,
                   ref |-> DataOf(files, inputs.ref_file),
                   flo |-> DataOf(files, inputs.flo_file),
                   rmask |-> DataOf(files, inputs.rmask_file),
                   fmask |-> DataOf(files, inputs.fmask_file)]
        trafo  == IF class = "aladin"
                  THEN [run |-> <<i, n>>, matrix |-> Matrix(seed)]
                  ELSE [run |-> <<i, n>>, cpp_of |-> warped]
    IN [files EXCEPT ![inputs.res_file] = [data |-> warped, by |-> <<i, n>>],
                     ![inputs.out_file] = [data |-> trafo, by |-> <<i, n>>]]

\* nreg.run() of reg_resample.
RunResample(files, inputs, i, n) ==
    [files EXCEPT ![inputs.res_file] =
        [data |-> [tool |-> "resample", run |-> <<i, n>>,
                   ref |-> files[inputs.ref_file].data,
                   flo |-> files[inputs.flo_file].data,
                   trans |-> files[inputs.trans_file].data,
                   inter |-> inputs.inter],
         by |-> <<i, n>>]]


\* RunSteps with the directory emptied at the end of the run.
RunStepsEmptyLast ==
    <<"write_fixed", "write_moving", "write_fixed_mask", "write_moving_mask",
      "tool", "read_warped", "read_transform", "create_directory", "done">>

\* The statements of RegAladin._run and RegF3D._run in the order of the code:
\* NiftyReg._run (lines 61-70), the tool (119, 229), the two reads (122-125,
\* 232-236).
RunSteps ==
    <<"create_directory", "write_fixed", "write_moving", "write_fixed_mask",
      "write_moving_mask", "tool", "read_warped", "read_transform", "done">>

\* The statements of get_deformed_image_sitk (lines 285-302).
DeformSteps == <<"gd_write_fixed", "gd_write_moving", "gd_tool", "gd_read", "done">>

\* The statement after statement pc.
After(steps, pc) ==
    steps[(CHOOSE k \in 1..Len(steps) : steps[k] = pc) + 1]

StepsOf(op) == IF op = "_run" THEN RunSteps ELSE DeformSteps

\* Instance i moves on to its next statement, having logged what it did.
Advance(p, did) ==
    [p EXCEPT !.pc = After(StepsOf(p.op), p.pc), !.log = p.log \o did]

\* Instance i's call ends with an exception.
Fail(p, exc) == [p EXCEPT !.pc = "done", !.exc = exc]

\* The directory's files left by an earlier process.
Stale == [data |-> [stale |-> TRUE], by |-> <<"earlier process", 0>>]

\* np.loadtxt reads a matrix from the file.
IsMatrixFile(file) == file # NoFile /\ "matrix" \in DOMAIN file.data

\* One instance is constructed, with the default subfolder of its class; the
\* temporary directories are empty or hold an earlier process's files.
InitNifty ==
    /\ constructed \in {{i} : i \in Insts}
    /\ self \in [Insts -> UNION {
           {NewInstance(i, DefaultSubfolder[i], fx, mv, fm, mm) :
                fx \in Images, mv \in Images,
                fm \in {None} \cup Masks, mm \in {None} \cup Masks} : i \in Insts}]
    /\ \A i \in Insts :
         /\ self[i].class = i
         /\ i \notin constructed =>
               self[i] = NewInstance(i, DefaultSubfolder[i],
                                     [dim |-> 3], [dim |-> 3],
                                     None, None)
    /\ proc = [i \in Insts |-> Idle]
    /\ fs \in {[p \in Paths |-> NoFile], [p \in Paths |-> Stale]}

\* The caller may make one more call on instance i.
MayCall(i) ==
    /\ proc[i].call < MaxCalls
    /\ constructed = Insts => proc["aladin"].call + proc["f3d"].call < MaxPairCalls

\* A call of _run begins.
StartRun(i) ==
    /\ i \in constructed
    /\ proc[i].pc = "idle"
    /\ MayCall(i)
    /\ proc' = [proc EXCEPT ![i] =
           [Idle EXCEPT !.op = "_run", !.pc = RunSteps[1],
                        !.call = proc[i].call + 1]]
    /\ UNCHANGED <<itkvars, constructed, self, fs>>

\* Line 61.
StepCreateDirectory(i) ==
    /\ i \in constructed
    /\ proc[i].pc = "create_directory"
    /\ fs' = CreateDirectory(fs, self[i].dir_tmp)
    /\ proc' = [proc EXCEPT ![i] = Advance(@, <<"create_directory">>)]
    /\ UNCHANGED <<itkvars, constructed, self>>

\* Line 63.
StepWriteFixed(i) ==
    /\ i \in constructed
    /\ proc[i].pc = "write_fixed"
    /\ fs' = WriteImage(fs, self[i].fixed_sitk, self[i].fixed_str, i, proc[i].call)
    /\ proc' = [proc EXCEPT ![i] = Advance(@, <<"write_fixed">>)]
    /\ UNCHANGED <<itkvars, constructed, self>>

\* Line 64.
StepWriteMoving(i) ==
    /\ i \in constructed
    /\ proc[i].pc = "write_moving"
    /\ fs' = WriteImage(fs, self[i].moving_sitk, self[i].moving_str, i, proc[i].call)
    /\ proc' = [proc EXCEPT ![i] = Advance(@, <<"write_moving">>)]
    /\ UNCHANGED <<itkvars, constructed, self>>

\* Lines 66-67.
StepWriteFixedMask(i) ==
    /\ i \in constructed
    /\ proc[i].pc = "write_fixed_mask"
    /\ IF self[i].fixed_sitk_mask # None
       THEN /\ fs' = WriteImage(fs, self[i].fixed_sitk_mask, self[i].fixed_mask_str,
                                i, proc[i].call)
            /\ proc' = [proc EXCEPT ![i] = Advance(@, <<"write_fixed_mask">>)]
       ELSE /\ fs' = fs
            /\ proc' = [proc EXCEPT ![i] = Advance(@, << >>)]
    /\ UNCHANGED <<itkvars, constructed, self>>

\* Lines 69-70.
StepWriteMovingMask(i) ==
    /\ i \in constructed
    /\ proc[i].pc = "write_moving_mask"
    /\ IF self[i].moving_sitk_mask # None
       THEN /\ fs' = WriteImage(fs, self[i].moving_sitk_mask, self[i].moving_mask_str,
                                i, proc[i].call)
            /\ proc' = [proc EXCEPT ![i] = Advance(@, <<"write_moving_mask">>)]
       ELSE /\ fs' = fs
            /\ proc' = [proc EXCEPT ![i] = Advance(@, << >>)]
    /\ UNCHANGED <<itkvars, constructed, self>>

\* Lines 102-119 and 212-229: the inputs are set and the tool is run; it
\* raises when it fails or cannot read its files.
StepTool(i) ==
    /\ i \in constructed
    /\ proc[i].pc = "tool"
    /\ LET inputs == ToolInputs(self[i]) IN
       \E outcome \in {"ok", "raise"}, seed \in 0..MaxSeed :
         IF outcome = "ok" /\ Readable(fs, inputs)
         THEN /\ fs' = RunTool(fs, self[i].class, inputs, seed, i, proc[i].call)
              /\ proc' = [proc EXCEPT ![i] =
                     Advance([@ EXCEPT !.inputs = inputs], <<"tool">>)]
         ELSE /\ fs' = fs
              /\ proc' = [proc EXCEPT ![i] =
                     Fail([@ EXCEPT !.inputs = inputs, !.log = @ \o <<"tool">>],
                          "RuntimeError")]
    /\ UNCHANGED <<itkvars, constructed, self>>

\* Lines 122 and 232: sitk.ReadImage raises when the file does not exist.
StepReadWarped(i) ==
    /\ i \in constructed
    /\ proc[i].pc = "read_warped"
    /\ IF fs[self[i].warped_moving_str] # NoFile
       THEN /\ self' = [self EXCEPT ![i].warped_moving_sitk =
                            fs[self[i].warped_moving_str].data]
            /\ proc' = [proc EXCEPT ![i] = Advance(@, <<"read_warped">>)]
       ELSE /\ self' = self
            /\ proc' = [proc EXCEPT ![i] = Fail(@, "RuntimeError")]
    /\ UNCHANGED <<itkvars, constructed, fs>>

\* Lines 125 (with 137-156) and 235-236.
StepReadTransform(i) ==
    /\ i \in constructed
    /\ proc[i].pc = "read_transform"
    /\ IF (IF self[i].class = "aladin" THEN IsMatrixFile(fs[self[i].transform_str])
                                      ELSE fs[self[i].transform_str] # NoFile)
       THEN /\ self' = [self EXCEPT ![i].registration_transform_sitk =
                   IF self[i].class = "aladin"
                   THEN ConvertToSitkTransform(fs[self[i].transform_str].data.matrix,
                                               self[i].fixed_sitk.dim)
                   ELSE fs[self[i].transform_str].data]
            /\ proc' = [proc EXCEPT ![i] = Advance(@, <<"read_transform">>)]
       ELSE /\ self' = self
            /\ proc' = [proc EXCEPT ![i] = Fail(@, "RuntimeError")]
    /\ UNCHANGED <<itkvars, constructed, fs>>


\* A call of get_deformed_image_sitk(fixed_sitk, moving_sitk,
\* interpolation_order) on the RegF3D instance begins.
StartDeform(i) ==
    /\ i \in constructed
    /\ proc[i].pc = "idle"
    /\ self[i].class = "f3d"
    /\ MayCall(i)
    /\ \E fx \in Images, mv \in Images \cup Masks, order \in {0, 1} :
         proc' = [proc EXCEPT ![i] =
             [Idle EXCEPT !.op = "get_deformed_image_sitk", !.pc = DeformSteps[1],
                          !.call = proc[i].call + 1,
                          !.args = [fixed_sitk |-> fx, moving_sitk |-> mv,
                                    interpolation_order |-> order]]]
    /\ UNCHANGED <<itkvars, constructed, self, fs>>

\* Line 285.
StepDeformWriteFixed(i) ==
    /\ i \in constructed
    /\ proc[i].pc = "gd_write_fixed"
    /\ fs' = WriteImage(fs, proc[i].args.fixed_sitk, self[i].fixed_str, i, proc[i].call)
    /\ proc' = [proc EXCEPT ![i] = Advance(@, <<"write_fixed">>)]
    /\ UNCHANGED <<itkvars, constructed, self>>

\* Line 286.
StepDeformWriteMoving(i) ==
    /\ i \in constructed
    /\ proc[i].pc = "gd_write_moving"
    /\ fs' = WriteImage(fs, proc[i].args.moving_sitk, self[i].moving_str, i, proc[i].call)
    /\ proc' = [proc EXCEPT ![i] = Advance(@, <<"write_moving">>)]
    /\ UNCHANGED <<itkvars, constructed, self>>

\* Lines 288-299: the resampling tool raises when it fails or when the
\* control point grid of an earlier _run is not there.
StepDeformTool(i) ==
    /\ i \in constructed
    /\ proc[i].pc = "gd_tool"
    /\ LET inputs == ResampleInputs(self[i], proc[i].args.interpolation_order) IN
       \E outcome \in {"ok", "raise"} :
         IF /\ outcome = "ok"
            /\ fs[inputs.ref_file] # NoFile
            /\ fs[inputs.flo_file] # NoFile
            /\ fs[inputs.trans_file] # NoFile
         THEN /\ fs' = RunResample(fs, inputs, i, proc[i].call)
              /\ proc' = [proc EXCEPT ![i] =
                     Advance([@ EXCEPT !.inputs = inputs], <<"tool">>)]
         ELSE /\ fs' = fs
              /\ proc' = [proc EXCEPT ![i] =
                     Fail([@ EXCEPT !.inputs = inputs, !.log = @ \o <<"tool">>],
                          "RuntimeError")]
    /\ UNCHANGED <<itkvars, constructed, self>>

\* Lines 301-302.
StepDeformRead(i) ==
    /\ i \in constructed
    /\ proc[i].pc = "gd_read"
    /\ IF fs[self[i].warped_moving_str] # NoFile
       THEN proc' = [proc EXCEPT ![i] =
                Advance([@ EXCEPT !.result = fs[self[i].warped_moving_str].data],
                        <<"read_warped">>)]
       ELSE proc' = [proc EXCEPT ![i] = Fail(@, "RuntimeError")]
    /\ UNCHANGED <<itkvars, constructed, self, fs>>

\* The call returns, or its exception reaches the caller; its frame is gone.
Return(i) ==
    /\ i \in constructed
    /\ proc[i].pc = "done"
    /\ proc' = [proc EXCEPT ![i] = [Idle EXCEPT !.call = proc[i].call]]
    /\ UNCHANGED <<itkvars, constructed, self, fs>>

\* Between two calls the caller gives the instance another fixed image, moving
\* image, fixed mask or moving mask.
SetFixed(i) ==
    /\ i \in constructed
    /\ proc[i].pc = "idle"
    /\ \E x \in Images : self' = [self EXCEPT ![i].fixed_sitk = x]
    /\ UNCHANGED <<itkvars, constructed, proc, fs>>

SetMoving(i) ==
    /\ i \in constructed
    /\ proc[i].pc = "idle"
    /\ \E x \in Images : self' = [self EXCEPT ![i].moving_sitk = x]
    /\ UNCHANGED <<itkvars, constructed, proc, fs>>

SetFixedMask(i) ==
    /\ i \in constructed
    /\ proc[i].pc = "idle"
    /\ \E x \in {None} \cup Masks : self' = [self EXCEPT ![i].fixed_sitk_mask = x]
    /\ UNCHANGED <<itkvars, constructed, proc, fs>>

SetMovingMask(i) ==
    /\ i \in constructed
    /\ proc[i].pc = "idle"
    /\ \E x \in {None} \cup Masks : self' = [self EXCEPT ![i].moving_sitk_mask = x]
    /\ UNCHANGED <<itkvars, constructed, proc, fs>>

NextNifty ==
    \E i \in Insts :
        \/ StartRun(i)
        \/ StepCreateDirectory(i)
        \/ StepWriteFixed(i)
        \/ StepWriteMoving(i)
        \/ StepWriteFixedMask(i)
        \/ StepWriteMovingMask(i)
        \/ StepTool(i)
        \/ StepReadWarped(i)
        \/ StepReadTransform(i)
        \/ StartDeform(i)
        \/ StepDeformWriteFixed(i)
        \/ StepDeformWriteMoving(i)
        \/ StepDeformTool(i)
        \/ StepDeformRead(i)
        \/ Return(i)
        \/ SetFixed(i)
        \/ SetMoving(i)
        \/ SetFixedMask(i)
        \/ SetMovingMask(i)

(***************************************************************************)
(*                            Specifications                               *)
(***************************************************************************)

vars == <<itkvars, niftyvars>>

\* No NiftyReg instance exists.
NoNifty ==
    /\ constructed = {}
    /\ self = [i \in Insts |->
                 NewInstance(i, DefaultSubfolder[i], [dim |-> 3],
                             [dim |-> 3], None, None)]
    /\ proc = [i \in Insts |-> Idle]
    /\ fs = [p \in Paths |-> NoFile]

\* No WrapItkRegistration object is used.
NoItk ==
    /\ cfg = Default @@ [dimension |-> 3]
    /\ registration_transform_itk = None
    /\ registration_transform_sitk = Absent
    /\ computational_time = 0
    /\ calls = << >>
    /\ last = Frame(None, Absent)
    /\ ret = NoCall

\* A WrapItkRegistration object and the calls made on it.
Init == InitItk /\ NoNifty
Next == NextItk
Spec == Init /\ [][Next]_vars

\* A NiftyReg instance and the calls made on it.
InitN == InitNifty /\ NoItk
NextN == NextNifty
SpecNifty == InitN /\ [][NextN]_vars

\* A RegAladin and a RegF3D are constructed with different subfolder
\* arguments (the defaults among them), each with its own images; the
\* temporary directories are empty or hold an earlier process's files.
InitPair ==
    /\ constructed = Insts
    /\ \E sa \in Subfolders \ {DefaultSubfolder["f3d"]},
          sf \in {DefaultSubfolder["aladin"], DefaultSubfolder["f3d"]},
          m \in Masks :
          /\ sa # sf
          /\ self = [aladin |-> NewInstance("aladin", sa, [dim |-> 2], [dim |-> 2], m, None),
                     f3d |-> NewInstance("f3d", sf, [dim |-> 3], [dim |-> 3], None, None)]
    /\ proc = [i \in Insts |-> Idle]
    /\ fs \in {[p \in Paths |-> NoFile], [p \in Paths |-> Stale]}

\* The statements of the calls of the two instances, interleaved in every
\* order.
NextPair ==
    \E i \in Insts :
        \/ StartRun(i)
        \/ StepCreateDirectory(i)
        \/ StepWriteFixed(i)
        \/ StepWriteMoving(i)
        \/ StepWriteFixedMask(i)
        \/ StepWriteMovingMask(i)
        \/ StepTool(i)
        \/ StepReadWarped(i)
        \/ StepReadTransform(i)
        \/ StartDeform(i)
        \/ StepDeformWriteFixed(i)
        \/ StepDeformWriteMoving(i)
        \/ StepDeformTool(i)
        \/ StepDeformRead(i)
        \/ Return(i)

InitP == InitPair /\ NoItk
SpecPair == InitP /\ [][NextPair]_vars


(***************************************************************************)
(*                  Properties of WrapItkRegistration                      *)
(***************************************************************************)

\* Some call of run has been made; last is the frame it ended with.
HasRun == Len(calls) > 0

\* The runs in which registration.Update() returned.
ExecutedRuns == {k \in 1..Len(calls) : calls[k].executed}

ExecuteRunFirst ==
    /\ ret.exc = "UnboundLocalError"
    /\ ret.msg = "Execute 'run' first."

\* The transform family each known registration type stands for.
FamilyOf(type) ==
    CASE type = "Rigid" -> "Euler"
      [] type = "Similarity" -> "Similarity"
      [] type = "Affine" -> "Affine"

\* C1 as claimed: get_registration_transform_itk raises UnboundLocalError
\* ("Execute 'run' first.") on an object on which no call of run has
\* completed without error, and returns the transform of the executed
\* registration after a run that completed without error.
C1_AsClaimed ==
    ret.call = "get_registration_transform_itk" =>
        /\ (\A k \in 1..Len(calls) : calls[k].exc # NoExc) => ExecuteRunFirst
        /\ (\E k \in 1..Len(calls) : calls[k].exc = NoExc) =>
               /\ ret.exc = NoExc
               /\ ret.value.run \in ExecutedRuns

\* C1, amended: get_registration_transform_itk raises UnboundLocalError
\* ("Execute 'run' first.") exactly as long as registration.Update() has not
\* returned in any call of run; once it has returned in some run, whether or
\* not that run then completed without error, the getter returns the transform
\* of the last registration that was executed.
C1_GetterAfterExecution ==
    ret.call = "get_registration_transform_itk" =>
        /\ ExecutedRuns = {} => ExecuteRunFirst
        /\ ExecutedRuns # {} =>
               /\ ret.exc = NoExc
               /\ ret.value.run \in ExecutedRuns
               /\ \A k \in ExecutedRuns : k <= ret.value.run
               /\ ret.value.type = [family |-> FamilyOf(cfg.registration_type),
                                    dim |-> cfg.dimension]

\* C1, witness: the getter returns the transform of a second run, executed
\* after a first run that had raised.
C1_Witness ==
    /\ ret.call = "get_registration_transform_itk"
    /\ ret.exc = NoExc
    /\ Len(calls) = 2
    /\ calls[1].exc # NoExc
    /\ calls[2].exc = NoExc
    /\ ret.value.run = 2

\* C2 as claimed: before any call of run, get_registration_transform_sitk
\* raises UnboundLocalError with the message "Execute 'run' first.", as
\* get_registration_transform_itk does.
C2_AsClaimed ==
    (ret.call = "get_registration_transform_sitk" /\ calls = << >>) =>
        ExecuteRunFirst

\* The run ended with ValueError and message m in the type checks of run,
\* before _run_v3 was entered.
RefusedWith(m) ==
    /\ last.exc = "ValueError"
    /\ last.msg = m
    /\ ~last.entered_v3
    /\ last.created = {}
    /\ ~last.executed

\* C3: run raises ValueError before any registration step when the fixed
\* image, the moving image, or a fixed or moving mask that is not None is not
\* an instance of itk.Image[pixel_type, dimension]; the checks are made in the
\* order fixed image, moving image, fixed mask, moving mask, and a mask that is
\* None passes its check.
C3_TypeChecksInOrder ==
    HasRun =>
        LET badFixed      == cfg.fixed_itk # ItkImage
            badMoving     == cfg.moving_itk # ItkImage
            badFixedMask  == cfg.fixed_itk_mask \notin {None, ItkImage}
            badMovingMask == cfg.moving_itk_mask \notin {None, ItkImage}
        IN /\ badFixed => RefusedWith("Fixed image must be of type itk.Image")
           /\ (~badFixed /\ badMoving) =>
                  RefusedWith("Moving image must be of type itk.Image")
           /\ (~badFixed /\ ~badMoving /\ badFixedMask) =>
                  RefusedWith("Fixed image mask must be of type itk.Image")
           /\ (~badFixed /\ ~badMoving /\ ~badFixedMask /\ badMovingMask) =>
                  RefusedWith("Moving image mask must be of type itk.Image")
           /\ (~badFixed /\ ~badMoving /\ ~badFixedMask /\ ~badMovingMask) =>
                  last.entered_v3

\* C3, witness: a fixed mask that is None passes and the moving mask is refused.
C3_Witness ==
    /\ HasRun
    /\ cfg.fixed_itk_mask = None
    /\ cfg.moving_itk_mask = SitkImage
    /\ last.exc = "ValueError"
    /\ last.msg = "Moving image mask must be of type itk.Image"

RefusedOptimizer ==
    \/ cfg.optimizer # "RegularStepGradientDescent"
    \/ cfg.optimizer_scales # None

\* The interpolator of lines 173-179 is obtained without an exception: it is
\* given to the constructor, or itk has an interpolator of that name.
InterpolatorObtained ==
    \/ cfg.itk_oriented_gaussian_interpolate_image_filter # None
    \/ cfg.interpolator \in {"Linear", "NearestNeighbor"}

\* C5 as claimed: run raises ValueError, and never executes the registration,
\* when optimizer is not "RegularStepGradientDescent" or optimizer_scales is
\* not None.
C5_AsClaimed ==
    (HasRun /\ RefusedOptimizer) =>
        /\ last.exc = "ValueError"
        /\ ~last.executed

\* C5, amended: when optimizer is not "RegularStepGradientDescent" or
\* optimizer_scales is not None, run raises and never executes the
\* registration; the exception is ValueError whenever the interpolator is
\* obtained without an exception (otherwise, unless an earlier check has raised
\* ValueError, it is the exception of the eval of lines 176-178).
C5_OptimizerRefused ==
    (HasRun /\ RefusedOptimizer) =>
        /\ last.exc # NoExc
        /\ ~last.executed
        /\ "metric" \notin last.created
        /\ InterpolatorObtained => last.exc = "ValueError"
        /\ last.exc \in {"ValueError", "AttributeError"}

\* C5, witness: optimizer scales are refused after the optimizer was created.
C5_Witness ==
    /\ HasRun
    /\ cfg.optimizer_scales # None
    /\ last.exc = "ValueError"
    /\ last.msg = "No scales allowed for 'ImageRegistrationMethod'"
    /\ "optimizer" \in last.created

MultiresolutionMessage ==
    "Multiresolution-Framework cannot be used with ImageRegistrationMethod"

\* Every step of run before the multi-resolution check returns.
StepsBeforeMultiresolutionReturn ==
    /\ cfg.fixed_itk = ItkImage
    /\ cfg.moving_itk = ItkImage
    /\ cfg.fixed_itk_mask \in {None, ItkImage}
    /\ cfg.moving_itk_mask \in {None, ItkImage}
    /\ cfg.registration_type \in {"Rigid", "Similarity", "Affine"}
    /\ InterpolatorObtained
    /\ cfg.metric \in {"Correlation", "MattesMutualInformation", "MeanSquares"}
    /\ ~RefusedOptimizer

\* C6 as claimed: with use_multiresolution_framework true, run always raises
\* ValueError before registration.Update() is reached.
C6_AsClaimed ==
    (HasRun /\ cfg.use_multiresolution_framework) =>
        /\ last.exc = "ValueError"
        /\ ~last.executed

\* C6, amended: with use_multiresolution_framework true, run never reaches
\* registration.Update(), for every shrink_factors and smoothing_sigmas: it
\* raises the ValueError of lines 280-282 when every earlier step returns, and
\* otherwise the exception of the first earlier step that raises, which need not
\* be a ValueError; so no run executes a registration with the framework
\* enabled, and the multi-resolution branch of the verbose report is never
\* reached.
C6_MultiresolutionNeverExecuted ==
    HasRun =>
        /\ ~last.multires_executed
        /\ ~last.printed_schedule
        /\ cfg.use_multiresolution_framework =>
               /\ last.exc # NoExc
               /\ ~last.executed
               /\ StepsBeforeMultiresolutionReturn <=>
                      (last.exc = "ValueError" /\ last.msg = MultiresolutionMessage)

\* C6, witness: the framework is refused after the transform was wired, with
\* a multi-resolution schedule that is not the default one.
C6_Witness ==
    /\ HasRun
    /\ cfg.use_multiresolution_framework
    /\ cfg.shrink_factors # <<2, 1>>
    /\ last.msg = MultiresolutionMessage
    /\ "transform" \in last.created


(***************************************************************************)
(*                 Properties of RegAladin and RegF3D                      *)
(***************************************************************************)

\* Instance i is in a call of _run, or at its end.
InRun(i) == i \in constructed /\ proc[i].op = "_run" /\ proc[i].pc # "idle"

\* Instance i is at the end of a _run that completed without error.
RunCompleted(i) == InRun(i) /\ proc[i].pc = "done" /\ proc[i].exc = NoExc

\* s is the beginning of t.
IsPrefix(s, t) == Len(s) <= Len(t) /\ \A k \in 1..Len(s) : s[k] = t[k]

\* The statement s is in the log.
Logged(i, s) == \E k \in 1..Len(proc[i].log) : proc[i].log[k] = s

\* The steps of a complete _run of instance i, in the order claimed.
ClaimedOrder(i) ==
    <<"create_directory", "write_fixed", "write_moving">>
    \o (IF self[i].fixed_sitk_mask # None THEN <<"write_fixed_mask">> ELSE << >>)
    \o (IF self[i].moving_sitk_mask # None THEN <<"write_moving_mask">> ELSE << >>)
    \o <<"tool", "read_warped", "read_transform">>

\* C7: every RegAladin._run and RegF3D._run empties the temporary directory,
\* writes the fixed and moving images and the masks that are present, invokes
\* the tool, and only then reads the warped image and the transform; after a
\* _run that completed without error the stored warped image and transform are
\* the ones the tool produced in that run from the instance's current fixed and
\* moving images.
C7_RunOrderAndResults ==
    \A i \in Insts :
        /\ InRun(i) => IsPrefix(proc[i].log, ClaimedOrder(i))
        /\ RunCompleted(i) =>
               /\ proc[i].log = ClaimedOrder(i)
               /\ self[i].warped_moving_sitk.run = <<i, proc[i].call>>
               /\ self[i].warped_moving_sitk.tool = self[i].class
               /\ self[i].warped_moving_sitk.ref = self[i].fixed_sitk
               /\ self[i].warped_moving_sitk.flo = self[i].moving_sitk
               /\ fs[self[i].warped_moving_str].data = self[i].warped_moving_sitk
               /\ fs[self[i].transform_str].by = <<i, proc[i].call>>
               /\ fs[self[i].transform_str].data.run = <<i, proc[i].call>>
               /\ self[i].class = "f3d" =>
                      /\ self[i].registration_transform_sitk.run = <<i, proc[i].call>>
                      /\ self[i].registration_transform_sitk.cpp_of.ref = self[i].fixed_sitk
                      /\ self[i].registration_transform_sitk.cpp_of.flo = self[i].moving_sitk
               /\ self[i].class = "aladin" =>
                      /\ self[i].registration_transform_sitk.kind = "sitk.AffineTransform"
                      /\ Len(self[i].registration_transform_sitk.translation)
                             = self[i].fixed_sitk.dim

\* C7, witness: a second call of RegAladin._run completed and stored its own
\* results.
C7_Witness ==
    \E i \in Insts :
        /\ RunCompleted(i)
        /\ self[i].class = "aladin"
        /\ proc[i].call = 2
        /\ self[i].warped_moving_sitk.run = <<i, 2>>
        /\ self[i].fixed_sitk.dim = 2
        /\ self[i].moving_sitk.dim = 3

\* C8: the fixed-mask file is written and passed to the tool as rmask_file if
\* and only if fixed_sitk_mask is not None, the moving-mask file is written and
\* passed as fmask_file if and only if moving_sitk_mask is not None, each
\* independently of the other, and a mask file passed to the tool was written
\* in the same run.
C8_MasksOptional ==
    \A i \in Insts :
        (InRun(i) /\ Logged(i, "tool")) =>
            /\ (proc[i].inputs.rmask_file # Undefined) <=> (self[i].fixed_sitk_mask # None)
            /\ Logged(i, "write_fixed_mask") <=> (self[i].fixed_sitk_mask # None)
            /\ (proc[i].inputs.fmask_file # Undefined) <=> (self[i].moving_sitk_mask # None)
            /\ Logged(i, "write_moving_mask") <=> (self[i].moving_sitk_mask # None)
            /\ proc[i].inputs.rmask_file # Undefined =>
                   /\ proc[i].inputs.rmask_file = self[i].fixed_mask_str
                   /\ fs[self[i].fixed_mask_str] # NoFile
                   /\ fs[self[i].fixed_mask_str].by = <<i, proc[i].call>>
                   /\ fs[self[i].fixed_mask_str].data = self[i].fixed_sitk_mask
            /\ proc[i].inputs.fmask_file # Undefined =>
                   /\ proc[i].inputs.fmask_file = self[i].moving_mask_str
                   /\ fs[self[i].moving_mask_str] # NoFile
                   /\ fs[self[i].moving_mask_str].by = <<i, proc[i].call>>
                   /\ fs[self[i].moving_mask_str].data = self[i].moving_sitk_mask

\* C8, witness: a run with a fixed mask and no moving mask passed rmask_file
\* alone to the tool, which used it.
C8_Witness ==
    \E i \in Insts :
        /\ RunCompleted(i)
        /\ self[i].fixed_sitk_mask # None
        /\ self[i].moving_sitk_mask = None
        /\ proc[i].inputs.rmask_file = self[i].fixed_mask_str
        /\ proc[i].inputs.fmask_file = Undefined
        /\ self[i].warped_moving_sitk.rmask = self[i].fixed_sitk_mask
        /\ self[i].warped_moving_sitk.fmask = None

\* C9: for a fixed image of dimension d, _convert_to_sitk_transform takes A as
\* the top-left d x d block and t as the first d entries of the last column of
\* the matrix of the transform file and returns R*A*R and R*t: for d = 3 the
\* entries A[0][2], A[1][2], A[2][0], A[2][1], t[0] and t[1] change sign and
\* all others are unchanged; for d = 2 the matrix is unchanged and t is negated.
C9_SignFlips ==
    \A i \in Insts :
        (RunCompleted(i) /\ self[i].class = "aladin") =>
            LET M == fs[self[i].transform_str].data.matrix
                T == self[i].registration_transform_sitk
            IN /\ self[i].fixed_sitk.dim = 3 =>
                      /\ T.matrix = << M[1][1],  M[1][2], -M[1][3],
                                       M[2][1],  M[2][2], -M[2][3],
                                      -M[3][1], -M[3][2],  M[3][3]>>
                      /\ T.translation = <<-M[1][4], -M[2][4], M[3][4]>>
               /\ self[i].fixed_sitk.dim = 2 =>
                      /\ T.matrix = <<M[1][1], M[1][2], M[2][1], M[2][2]>>
                      /\ T.translation = <<-M[1][4], -M[2][4]>>

\* C9, witness: a transform was converted for a fixed image of dimension 3,
\* from a matrix none of whose entries that change sign is zero.
C9_Witness ==
    \E i \in Insts :
        /\ RunCompleted(i)
        /\ self[i].class = "aladin"
        /\ self[i].fixed_sitk.dim = 3
        /\ LET T == self[i].registration_transform_sitk
           IN /\ T.matrix[3] # 0 /\ T.matrix[6] # 0
              /\ T.matrix[7] # 0 /\ T.matrix[8] # 0
              /\ T.translation[1] # 0 /\ T.translation[2] # 0

\* C10: every _run begins by emptying the instance's temporary directory, so
\* whatever calls of _run and get_deformed_image_sitk came before, from then on
\* the directory holds no file of an earlier call: every file in it was written
\* by this run; after a run with masks, a run without masks finds no mask file
\* and passes none to the tool.
C10_DirectoryEmptied ==
    \A i \in Insts :
        (InRun(i) /\ Logged(i, "create_directory")) =>
            /\ \A p \in Paths :
                   (InDirectory(p, self[i].dir_tmp) /\ fs[p] # NoFile) =>
                       fs[p].by = <<i, proc[i].call>>
            /\ proc[i].log = <<"create_directory">> =>
                   \A p \in Paths : InDirectory(p, self[i].dir_tmp) => fs[p] = NoFile
            /\ self[i].fixed_sitk_mask = None =>
                   /\ fs[self[i].fixed_mask_str] = NoFile
                   /\ Logged(i, "tool") => proc[i].inputs.rmask_file = Undefined
            /\ self[i].moving_sitk_mask = None =>
                   /\ fs[self[i].moving_mask_str] = NoFile
                   /\ Logged(i, "tool") => proc[i].inputs.fmask_file = Undefined

\* C10, witness: in a run without masks the tool has returned; the instance
\* still holds the warped image of its first run, which the tool had made with
\* both masks.
C10_Witness ==
    \E i \in Insts :
        /\ InRun(i)
        /\ proc[i].pc = "read_warped"
        /\ proc[i].call = 2
        /\ self[i].warped_moving_sitk # Unset
        /\ self[i].warped_moving_sitk.run = <<i, 1>>
        /\ self[i].warped_moving_sitk.rmask # None
        /\ self[i].warped_moving_sitk.fmask # None
        /\ self[i].fixed_sitk_mask = None
        /\ self[i].moving_sitk_mask = None
        /\ proc[i].inputs.rmask_file = Undefined
        /\ proc[i].inputs.fmask_file = Undefined
        /\ fs[self[i].fixed_mask_str] = NoFile
        /\ fs[self[i].moving_mask_str] = NoFile


(***************************************************************************)
(*          Properties of two instances in use at the same time            *)
(***************************************************************************)

\* The other instance.
Peer(i) == CHOOSE j \in Insts : j # i

\* The file paths instance i writes, reads or hands to a tool.
PathsOf(i) ==
    {self[i].fixed_str, self[i].moving_str, self[i].warped_moving_str,
     self[i].fixed_mask_str, self[i].moving_mask_str,
     self[i].warped_moving_mask_str, self[i].transform_str}

\* The two instances were constructed with different subfolder arguments:
\* _dir_tmp is DIR_TMP, a separator and the argument as it was given.
DifferentNames == self["aladin"].dir_tmp # self["f3d"].dir_tmp

\* The two subfolder arguments name different directories.
DifferentDirectories ==
    Directory(self["aladin"].dir_tmp) # Directory(self["f3d"].dir_tmp)

\* Both instances were constructed with the default subfolder of their class.
BothDefault ==
    \A i \in Insts : self[i].dir_tmp = Path(Join(DIR_TMP, DefaultSubfolder[i]))

\* No file path belongs to both instances.
DisjointPaths == PathsOf("aladin") \cap PathsOf("f3d") = {}

\* A step of one instance leaves every file of the other as it was: it
\* neither deletes nor overwrites one.
LeavesPeerFiles ==
    \A i \in Insts :
        proc'[i] # proc[i] => \A p \in PathsOf(Peer(i)) : fs'[p] = fs[p]

\* Every file a statement of instance i is about to read is there, and is the
\* one the current call of i wrote (the control point grid that
\* get_deformed_image_sitk resamples with: one that i wrote or found).
ReadsOwnFiles(i) ==
    LET mine(path) == fs[path] # NoFile /\ fs[path].by = <<i, proc[i].call>>
    IN /\ proc[i].pc \in {"tool", "gd_tool"} =>
              mine(self[i].fixed_str) /\ mine(self[i].moving_str)
       /\ proc[i].pc = "tool" =>
              /\ self[i].fixed_sitk_mask # None => mine(self[i].fixed_mask_str)
              /\ self[i].moving_sitk_mask # None => mine(self[i].moving_mask_str)
       /\ proc[i].pc = "gd_tool" =>
              \/ fs[self[i].transform_str] = NoFile
              \/ fs[self[i].transform_str].by[1] \in {i, Stale.by[1]}
       /\ proc[i].pc \in {"read_warped", "read_transform", "gd_read"} =>
              mine(self[i].warped_moving_str)
       /\ proc[i].pc \in {"read_warped", "read_transform"} =>
              mine(self[i].transform_str)

\* The results of a call of instance i that returned are those of that call
\* made alone: made by this call of the tool from the images and masks of i
\* (from the arguments, for get_deformed_image_sitk).
ResultsAlone(i) ==
    /\ RunCompleted(i) =>
           LET w == [tool |-> self[i].class, run |-> <<i, proc[i].call>>,
                     ref |-> self[i].fixed_sitk, flo |-> self[i].moving_sitk,
                     rmask |-> self[i].fixed_sitk_mask,
                     fmask |-> self[i].moving_sitk_mask]
           IN /\ self[i].warped_moving_sitk = w
              /\ IF self[i].class = "aladin"
                 THEN \E seed \in 0..MaxSeed :
                          self[i].registration_transform_sitk =
                              ConvertToSitkTransform(Matrix(seed), self[i].fixed_sitk.dim)
                 ELSE self[i].registration_transform_sitk =
                          [run |-> <<i, proc[i].call>>, cpp_of |-> w]
    /\ (/\ proc[i].op = "get_deformed_image_sitk"
        /\ proc[i].pc = "done"
        /\ proc[i].exc = NoExc) =>
           /\ proc[i].result.tool = "resample"
           /\ proc[i].result.run = <<i, proc[i].call>>
           /\ proc[i].result.ref = proc[i].args.fixed_sitk
           /\ proc[i].result.flo = proc[i].args.moving_sitk
           /\ proc[i].result.inter = proc[i].args.interpolation_order
           /\ \/ proc[i].result.trans = Stale.data
              \/ proc[i].result.trans.run[1] = i

\* C11 as claimed: under every interleaving of the statements of _run and
\* get_deformed_image_sitk of two instances constructed with different
\* subfolder names, neither instance deletes, overwrites or reads a file of
\* the other, and each obtains the results it would obtain running alone.
C11_AsClaimed ==
    /\ [][DifferentNames => LeavesPeerFiles]_vars
    /\ [](DifferentNames => \A i \in Insts : ReadsOwnFiles(i) /\ ResultsAlone(i))

\* C11, amended: two instances whose subfolder names name different
\* directories (as the default names "RegAladin" and "RegF3D" do) use
\* disjoint sets of file paths, and under every interleaving of the
\* statements of their _run and get_deformed_image_sitk neither deletes,
\* overwrites or reads a file of the other and each obtains the results it
\* would obtain running alone. Different names are not enough: os.path.join
\* builds the same file paths from "RegAladin" and from "RegAladin/".
C11_SeparateDirectories ==
    /\ [](BothDefault => DifferentDirectories)
    /\ [](DifferentDirectories =>
            /\ DisjointPaths
            /\ \A i \in Insts : ReadsOwnFiles(i) /\ ResultsAlone(i))
    /\ [][DifferentDirectories => LeavesPeerFiles]_vars

\* C11, witness: with the default subfolders, and files of an earlier process
\* in both directories when they began, the RegAladin and the RegF3D are both
\* in a _run and both tools have returned: every file of either directory was
\* written while the other instance was at work.
C11_Witness ==
    /\ constructed = Insts
    /\ BothDefault
    /\ \A i \in Insts :
           /\ InRun(i)
           /\ proc[i].pc = "read_warped"
           /\ fs[self[i].warped_moving_str].by = <<i, 1>>
    /\ fs[self["aladin"].moving_mask_str] = NoFile
    /\ fs[self["f3d"].fixed_mask_str] = NoFile

====
